---- MODULE Spec2Model ----
(***************************************************************************)
(* based.py: guess the load base of a raw image by matching pointer-sized  *)
(* words against the file offsets of the C strings found in the image.     *)
(*                                                                         *)
(* Bytes are integers 0..255 and a stream is a byte sequence with a read   *)
(* position.  Python integers are unbounded; a decoded word and a          *)
(* candidate base are kept as sign and magnitude, the magnitude being the  *)
(* little-endian base-256 digits of the number (pointer_size digits).      *)
(***************************************************************************)
EXTENDS Integers, Sequences, FiniteSets, TLC

VARIABLES
    image,          \* the bytes of the stream (the file)
    spos,           \* the stream's read position
    endian,         \* scan_file argument
    pointer_size,   \* scan_file argument
    mask,           \* scan_file argument
    pc,             \* where the program is
    parts,          \* iter_cstrings_raw: runs of the split not yet visited
    pos,            \* iter_cstrings_raw: pos
    raw,            \* what iter_cstrings_raw has yielded so far
    strs,           \* what iter_cstrings has yielded so far
    M,              \* scan_file: masked offset -> list of (offset, string)
    c,              \* scan_file: the Counter, as (key, count) pairs in insertion order
    chunks,         \* what chunkify has yielded so far
    chk,            \* scan_file: the word of the current iteration
    bi,             \* scan_file: index of the inner loop into M[lo]
    rescan,         \* result of a second list(iter_cstrings(stream))
    out,            \* lines printed by main
    exit            \* how main ended

vars == <<image, spos, endian, pointer_size, mask, pc, parts, pos, raw, strs,
          M, c, chunks, chk, bi, rescan, out, exit>>

-----------------------------------------------------------------------------
(* Bounds and inputs *)

MaxPieces == 3

HELLOWORLD == <<72, 69, 76, 76, 79, 87, 79, 82, 76, 68>>

\* Building blocks of the images: a delimiter, a tab, an extended byte, a
\* string, a terminated padded string, and two little-endian encoded words.
Pieces ==
    { <<0>>, <<9>>, <<200>>,
      HELLOWORLD,
      HELLOWORLD \o <<0, 0>>,
      <<1, 16, 0, 0>>,
      <<4, 0, 0, 0, 0, 0, 0, 0>> }

RECURSIVE Flatten(_)
Flatten(ss) == IF ss = <<>> THEN <<>> ELSE Head(ss) \o Flatten(Tail(ss))

\* b"\x00" + b"HELLOWORLD" + b"\x00" + (0x1001).to_bytes(4, "little")
ExampleImage == <<0>> \o HELLOWORLD \o <<0>> \o <<1, 16, 0, 0>>

Images ==
    { Flatten(ss) : ss \in UNION { [1..n -> Pieces] : n \in 0..MaxPieces } }
        \cup { ExampleImage }

Endians == {"little", "big"}
PointerSizes == {4, 8}
MaskWidths == {0, 2, 12}

-----------------------------------------------------------------------------
(* Helpers: bytes, integers *)

Min(a, b) == IF a < b THEN a ELSE b

RECURSIVE Reverse(_)
Reverse(s) == IF s = <<>> THEN <<>> ELSE Reverse(Tail(s)) \o <<Head(s)>>

\* stream.read(n) at position p: the bytes returned
StreamRead(data, p, n) == SubSeq(data, p + 1, Min(p + n, Len(data)))

\* stream.read() at position p: everything up to the end
StreamReadAll(data, p) == SubSeq(data, p + 1, Len(data))

\* Python's a & b for small non-negative integers
RECURSIVE int_and(_, _)
int_and(a, b) ==
    IF a = 0 \/ b = 0 THEN 0
    ELSE (a % 2) * (b % 2) + 2 * int_and(a \div 2, b \div 2)

\* the number n >= 0 as w little-endian base-256 digits
RECURSIVE ToDigits(_, _)
ToDigits(n, w) == IF w = 0 THEN <<>> ELSE <<n % 256>> \o ToDigits(n \div 256, w - 1)

\* the value of the three lowest digits
LowInt(d) ==
    (IF Len(d) >= 1 THEN d[1] ELSE 0)
    + (IF Len(d) >= 2 THEN 256 * d[2] ELSE 0)
    + (IF Len(d) >= 3 THEN 65536 * d[3] ELSE 0)

HighZero(d) == \A i \in 4..Len(d) : d[i] = 0

\* digits of (d - k) for 0 <= k <= d, with borrow
RECURSIVE SubDigits(_, _)
SubDigits(d, k) ==
    IF d = <<>> THEN <<>>
    ELSE LET t == Head(d) - k
         IN  <<t % 256>> \o SubDigits(Tail(d), IF t < 0 THEN (255 - t) \div 256 ELSE 0)

\* int.from_bytes(d, byteorder=endian)
from_bytes_swapped(d, e) ==
    [neg |-> FALSE, mag |-> IF e = "little" THEN Reverse(d) ELSE d]

from_bytes(d, e) ==
    [neg |-> FALSE, mag |-> IF e = "little" THEN d ELSE Reverse(d)]

\* v & m for a decoded word v and 0 <= m < 2^24
word_and(v, m) == int_and(LowInt(v.mag), m)

\* v - k for a decoded word v and a file offset k
word_sub(v, k) ==
    IF HighZero(v.mag) /\ LowInt(v.mag) < k
    THEN [neg |-> TRUE, mag |-> ToDigits(k - LowInt(v.mag), Len(v.mag))]
    ELSE [neg |-> FALSE, mag |-> SubDigits(v.mag, k)]

-----------------------------------------------------------------------------
(* The functions of based.py *)

threshold == 10

delimiter == 0

\* string.printable.encode("ascii")
charset == (32..126) \cup (9..13)

\* make_mask(n): (1 << n) - 1
make_mask_no_decrement(n) == 2 ^ n

make_mask(n) == 2 ^ n - 1

\* data.split(delimiter)
RECURSIVE split(_, _)
split(data, d) ==
    IF \A i \in 1..Len(data) : data[i] # d THEN <<data>>
    ELSE LET i == CHOOSE j \in 1..Len(data) :
                      data[j] = d /\ \A k \in 1..(j - 1) : data[k] # d
         IN  <<SubSeq(data, 1, i - 1)>> \o split(SubSeq(data, i + 1, Len(data)), d)

\* iter_cstrings_raw: stream.seek(0) followed by stream.read()
raw_read_no_seek(data, p) == StreamReadAll(data, p)

raw_read(data, p) == StreamReadAll(data, 0)

\* iter_cstrings_raw: the position of the run after a run sin at position p
next_pos_no_delimiter(p, sin) == p + Len(sin)

next_pos(p, sin) == p + Len(sin) + 1

\* iter_cstrings: the two filters on a run
keeps_longer_only(sin) ==
    /\ ~(Len(sin) <= threshold)
    /\ ~(\E i \in 1..Len(sin) : sin[i] \notin charset)

keeps(sin) ==
    /\ ~(Len(sin) < threshold)
    /\ ~(\E i \in 1..Len(sin) : sin[i] \notin charset)

\* the loop of iter_cstrings_raw over the runs ps, starting at position p
RECURSIVE raw_runs(_, _)
raw_runs(ps, p) ==
    IF ps = <<>> THEN <<>>
    ELSE <<<<p, Head(ps)>>>> \o raw_runs(Tail(ps), next_pos(p, Head(ps)))

\* list(iter_cstrings_raw(stream)) for a stream at position p
iter_cstrings_raw(data, p) == raw_runs(split(raw_read(data, p), delimiter), 0)

\* list(iter_cstrings(stream)) for a stream at position p
KeptRun(s) == keeps(s[2])
iter_cstrings(data, p) == SelectSeq(iter_cstrings_raw(data, p), KeptRun)

\* scan_file: masked_offset = offset & MASK
masked_offset_unmasked(offset, n) == offset

masked_offset(offset, n) == int_and(offset, make_mask(n))

\* scan_file: lo = chk & MASK
lo_of(v, n) == word_and(v, make_mask(n))

\* scan_file: M[masked_offset].append(s), creating the list when missing
index_add(m, k, s) ==
    IF k \in DOMAIN m THEN [m EXCEPT ![k] = Append(@, s)]
    ELSE [x \in DOMAIN m \cup {k} |-> IF x = k THEN <<s>> ELSE m[x]]

\* scan_file: stream.seek(0) before the pointer pass
no_rewind(p) == p

rewind(p) == 0

\* Counter: c[k]
counter_get(cc, k) ==
    IF \E i \in 1..Len(cc) : cc[i][1] = k
    THEN LET i == CHOOSE j \in 1..Len(cc) : cc[j][1] = k IN cc[i][2]
    ELSE 0

\* Counter: c[k] += n
counter_add(cc, k, n) ==
    IF \E i \in 1..Len(cc) : cc[i][1] = k
    THEN [i \in 1..Len(cc) |-> IF cc[i][1] = k THEN <<k, cc[i][2] + n>> ELSE cc[i]]
    ELSE Append(cc, <<k, n>>)

counter_keys(cc) == { cc[i][1] : i \in 1..Len(cc) }

\* Counter.total()
RECURSIVE counter_total(_)
counter_total(cc) == IF cc = <<>> THEN 0 ELSE Head(cc)[2] + counter_total(Tail(cc))

\* scan_file: the amount of one c[base] += ...
vote_weight_one(bucket) == 1

vote_weight(bucket) == Len(bucket)

\* scan_file: the body of the inner loop for the word v and the entry s of bucket
vote_unchecked(cc, v, s, bucket) ==
    counter_add(cc, word_sub(v, s[1]), vote_weight(bucket))

vote(cc, v, s, bucket) ==
    LET base == word_sub(v, s[1])
    IN  IF base.neg THEN cc ELSE counter_add(cc, base, vote_weight(bucket))

\* Counter.most_common(n): by count, descending, equal counts in insertion order
RECURSIVE most_common(_, _)
most_common(cc, n) ==
    IF n = 0 \/ cc = <<>> THEN <<>>
    ELSE LET i == CHOOSE j \in 1..Len(cc) :
                      /\ \A k \in 1..Len(cc) : cc[k][2] <= cc[j][2]
                      /\ \A k \in 1..(j - 1) : cc[k][2] < cc[j][2]
             others == [k \in 1..(Len(cc) - 1) |-> IF k < i THEN cc[k] ELSE cc[k + 1]]
         IN  <<cc[i]>> \o most_common(others, n - 1)

\* main: result.most_common(1)[0][0], which raises IndexError on an empty list
best_or_zero(cc) ==
    IF most_common(cc, 1) = <<>>
    THEN [raised |-> "", value |-> [neg |-> FALSE, mag |-> <<0>>]]
    ELSE [raised |-> "", value |-> most_common(cc, 1)[1][1]]

best_result_of(cc) ==
    IF most_common(cc, 1) = <<>>
    THEN [raised |-> "IndexError", value |-> [neg |-> FALSE, mag |-> <<>>]]
    ELSE [raised |-> "", value |-> most_common(cc, 1)[1][1]]

HexChars == <<"0", "1", "2", "3", "4", "5", "6", "7",
              "8", "9", "a", "b", "c", "d", "e", "f">>

\* the hexadecimal digits of a magnitude, most significant first, two per byte
RECURSIVE hex_digits(_)
hex_digits(d) ==
    IF d = <<>> THEN <<>>
    ELSE hex_digits(Tail(d)) \o <<HexChars[(Head(d) \div 16) + 1], HexChars[(Head(d) % 16) + 1]>>

RECURSIVE strip_zeros(_)
strip_zeros(t) ==
    IF Len(t) > 1 /\ Head(t) = "0" THEN strip_zeros(Tail(t)) ELSE t

\* hex(v) for v >= 0
hex(v) == <<"0", "x">> \o strip_zeros(hex_digits(v.mag))

\* the decimal digits of n >= 0
RECURSIVE decimal(_)
decimal(n) ==
    IF n < 10 THEN <<HexChars[n + 1]>> ELSE decimal(n \div 10) \o <<HexChars[(n % 10) + 1]>>

\* math.ceil(math.log10(n)) for n >= 1
RECURSIVE ceil_log10(_)
ceil_log10(n) == IF n <= 1 THEN 0 ELSE 1 + ceil_log10((n + 9) \div 10)

RECURSIVE pad_left(_, _)
pad_left(t, w) == IF Len(t) >= w THEN t ELSE pad_left(<<" ">> \o t, w)

\* main: f"0x{c[0]:0{field_size}x} {c[1]:>{s}}"
verbose_line(e, total) ==
    <<"0", "x">> \o hex_digits(e[1].mag) \o <<" ">>
        \o pad_left(decimal(e[2]), ceil_log10(total))

-----------------------------------------------------------------------------
(* The program: scan_file on a stream, then main's selection and printing, *)
(* or a second extraction of the strings from the same stream.             *)

NoWord == [neg |-> FALSE, mag |-> <<>>]

Init ==
    /\ image \in Images
    /\ spos \in {0, Len(image) \div 2, Len(image)}
    /\ endian \in Endians
    /\ pointer_size \in PointerSizes
    /\ mask \in MaskWidths
    /\ pc = "start"
    /\ parts = <<>>
    /\ pos = 0
    /\ raw = <<>>
    /\ strs = <<>>
    /\ M = <<>>
    /\ c = <<>>
    /\ chunks = <<>>
    /\ chk = NoWord
    /\ bi = 0
    /\ rescan = <<>>
    /\ out = <<>>
    /\ exit = "running"

\* scan_file is entered; iter_cstrings_raw seeks, reads the stream and splits it
StartStrings ==
    /\ pc = "start"
    /\ parts' = split(raw_read(image, spos), delimiter)
    /\ spos' = Len(image)
    /\ pos' = 0
    /\ M' = <<>>
    /\ pc' = "strings"
    /\ UNCHANGED <<image, endian, pointer_size, mask, raw, strs, c, chunks, chk,
                   bi, rescan, out, exit>>

\* one run of the split: yielded by iter_cstrings_raw, filtered by
\* iter_cstrings, and indexed by scan_file when it passes
StringStep ==
    /\ pc = "strings"
    /\ parts # <<>>
    /\ LET sin == Head(parts)
           s == <<pos, sin>>
       IN  /\ raw' = Append(raw, s)
           /\ pos' = next_pos(pos, sin)
           /\ parts' = Tail(parts)
           /\ IF keeps(sin)
              THEN /\ strs' = Append(strs, s)
                   /\ M' = index_add(M, masked_offset(pos, mask), s)
              ELSE UNCHANGED <<strs, M>>
    /\ UNCHANGED <<image, spos, endian, pointer_size, mask, pc, c, chunks, chk,
                   bi, rescan, out, exit>>

\* the strings are exhausted: c = Counter(), stream.seek(0)
StringsDone ==
    /\ pc = "strings"
    /\ parts = <<>>
    /\ c' = <<>>
    /\ spos' = rewind(spos)
    /\ pc' = "chunks"
    /\ UNCHANGED <<image, endian, pointer_size, mask, parts, pos, raw, strs, M,
                   chunks, chk, bi, rescan, out, exit>>

\* chunkify reads a full window and yields its value; scan_file looks it up
ChunkRead ==
    /\ pc = "chunks"
    /\ LET d == StreamRead(image, spos, pointer_size)
           val == from_bytes(d, endian)
       IN  /\ Len(d) = pointer_size
           /\ spos' = spos + Len(d)
           /\ chunks' = Append(chunks, val)
           /\ IF lo_of(val, mask) \in DOMAIN M
              THEN /\ chk' = val
                   /\ bi' = 1
                   /\ pc' = "vote"
              ELSE UNCHANGED <<chk, bi, pc>>
    /\ UNCHANGED <<image, endian, pointer_size, mask, parts, pos, raw, strs, M,
                   c, rescan, out, exit>>

\* chunkify reads less than a window and stops; scan_file returns c
ChunkEnd ==
    /\ pc = "chunks"
    /\ LET d == StreamRead(image, spos, pointer_size)
       IN  /\ Len(d) < pointer_size
           /\ spos' = spos + Len(d)
    /\ pc' = "scanned"
    /\ UNCHANGED <<image, endian, pointer_size, mask, parts, pos, raw, strs, M,
                   c, chunks, chk, bi, rescan, out, exit>>

\* one iteration of "for off, string in M[lo]"
VoteStep ==
    /\ pc = "vote"
    /\ LET bucket == M[lo_of(chk, mask)]
       IN  /\ c' = vote(c, chk, bucket[bi], bucket)
           /\ IF bi < Len(bucket)
              THEN /\ bi' = bi + 1
                   /\ pc' = pc
              ELSE /\ bi' = 0
                   /\ pc' = "chunks"
    /\ UNCHANGED <<image, spos, endian, pointer_size, mask, parts, pos, raw,
                   strs, M, chunks, chk, rescan, out, exit>>

\* main: most_common(1)[0] of an empty table raises IndexError, which nothing
\* catches: the process ends with a traceback and has printed nothing
MainEmpty ==
    /\ pc = "scanned"
    /\ best_result_of(c).raised # ""
    /\ exit' = best_result_of(c).raised
    /\ pc' = "exited"
    /\ UNCHANGED <<image, spos, endian, pointer_size, mask, parts, pos, raw,
                   strs, M, c, chunks, chk, bi, rescan, out>>

\* main: the best result, or the ten most common in verbose mode, is printed
MainPrint(verbose) ==
    /\ pc = "scanned"
    /\ best_result_of(c).raised = ""
    /\ out' = IF verbose
              THEN LET top == most_common(c, 10)
                   IN  [i \in 1..Len(top) |-> verbose_line(top[i], counter_total(c))]
              ELSE <<hex(best_result_of(c).value)>>
    /\ exit' = "ok"
    /\ pc' = "exited"
    /\ UNCHANGED <<image, spos, endian, pointer_size, mask, parts, pos, raw,
                   strs, M, c, chunks, chk, bi, rescan>>

\* the strings are extracted again from the stream scan_file has left
Rescan ==
    /\ pc = "scanned"
    /\ rescan' = iter_cstrings(image, spos)
    /\ spos' = Len(image)
    /\ pc' = "rescanned"
    /\ UNCHANGED <<image, endian, pointer_size, mask, parts, pos, raw, strs, M,
                   c, chunks, chk, bi, out, exit>>

Next ==
    \/ StartStrings
    \/ StringStep
    \/ StringsDone
    \/ ChunkRead
    \/ ChunkEnd
    \/ VoteStep
    \/ MainEmpty
    \/ \E verbose \in BOOLEAN : MainPrint(verbose)
    \/ Rescan

Spec == Init /\ [][Next]_vars

-----------------------------------------------------------------------------
(* Vocabulary of the properties, stated on the image itself *)

\* the scan has returned its table
Scanned == pc \in {"scanned", "exited", "rescanned"}

\* the first offset at or after o that holds a delimiter, or the image's length
RunEnd(o) ==
    CHOOSE e \in o..Len(image) :
        /\ e = Len(image) \/ image[e + 1] = 0
        /\ \A k \in o..(e - 1) : image[k + 1] # 0

\* offsets of the delimited runs of at least 10 bytes, all of them in cs
EmbeddedStrings(cs) ==
    { o \in 0..Len(image) :
        /\ o = 0 \/ image[o] = 0
        /\ RunEnd(o) - o >= 10
        /\ \A k \in o..(RunEnd(o) - 1) : image[k + 1] \in cs }

\* the number held by the pointer_size bytes at offset i, as a word
WordAt(i) ==
    [neg |-> FALSE,
     mag |-> [k \in 1..pointer_size |->
                 IF endian = "little" THEN image[i + k]
                 ELSE image[i + pointer_size + 1 - k]]]

\* offsets at which pointer_size bytes lie within the image
WindowOffsets == { i \in 0..Len(image) : i + pointer_size <= Len(image) }

\* the low mask bits of a non-negative number are zero (mask < 24)
LowBitsZero(b) == LowInt(b.mag) % (2 ^ mask) = 0

IsZero(b) == \A k \in 1..Len(b.mag) : b.mag[k] = 0

InSeq(x, q) == \E i \in 1..Len(q) : q[i] = x

PrintableStrict == 32..126

PrintableWithWhitespace == (32..126) \cup (9..13)

-----------------------------------------------------------------------------
(* C1 *)

\* the word at offset i is base + o for the string at o and a base >= 0
Points(i, o) == ~word_sub(WordAt(i), o).neg

Voted(b) == counter_get(c, b) > 0

\* C1 as stated: whenever pointer_size bytes at ANY offset of the image decode
\* to base + s.offset for a qualifying string s and a base >= 0, the table
\* scan_file returns counts base.
C1_AnyOffsetAnyBase ==
    Scanned =>
        \A o \in EmbeddedStrings(PrintableStrict) : \A i \in WindowOffsets :
            Points(i, o) => Voted(word_sub(WordAt(i), o))

\* C1 amended: whenever pointer_size bytes at an offset that is a multiple of
\* pointer_size decode to base + s.offset for a qualifying string s and a
\* base >= 0 whose low mask bits are zero, the table scan_file returns counts
\* base.
C1_AlignedPointerAlignedBase ==
    Scanned =>
        \A o \in EmbeddedStrings(PrintableWithWhitespace) : \A i \in WindowOffsets :
            (/\ i % pointer_size = 0
             /\ Points(i, o)
             /\ LowBitsZero(word_sub(WordAt(i), o)))
                => Voted(word_sub(WordAt(i), o))

\* a scan of an image holding an aligned pointer to a string at a non-zero
\* offset, for a non-zero base, under a mask of 12 bits
C1_Witness ==
    /\ Scanned
    /\ mask = 12
    /\ \E o \in EmbeddedStrings(PrintableWithWhitespace) : \E i \in WindowOffsets :
          /\ o > 0
          /\ i % pointer_size = 0
          /\ Points(i, o)
          /\ LowBitsZero(word_sub(WordAt(i), o))
          /\ ~IsZero(word_sub(WordAt(i), o))
          /\ Voted(word_sub(WordAt(i), o))

-----------------------------------------------------------------------------
(* C2 *)

\* the entry of the index the inner loop is at, and its candidate base
CurBucket == M[lo_of(chk, mask)]
CurBase == word_sub(chk, CurBucket[bi][1])

OthersKept(b) ==
    \A k \in (counter_keys(c) \cup counter_keys(c')) \ {b} :
        counter_get(c', k) = counter_get(c, k)

\* C2 as stated: every iteration of the inner loop with a non-negative base
\* raises the count of that base by exactly 1 and leaves every other count.
C2_OneVotePerPair ==
    [][(pc = "vote" /\ ~CurBase.neg) =>
          /\ counter_get(c', CurBase) = counter_get(c, CurBase) + 1
          /\ OthersKept(CurBase)]_vars

\* C2 amended: every iteration of the inner loop with a non-negative base
\* raises the count of that base by the number of strings in the matched
\* bucket (1 when the bucket holds one string) and leaves every other count.
C2_BucketSizePerPair ==
    [][(pc = "vote" /\ ~CurBase.neg) =>
          /\ counter_get(c', CurBase) = counter_get(c, CurBase) + Len(CurBucket)
          /\ OthersKept(CurBase)]_vars

\* the first string of a bucket of several strings has just voted
C2_Witness ==
    /\ pc = "vote"
    /\ bi = 2
    /\ Len(CurBucket) >= 2
    /\ ~word_sub(chk, CurBucket[1][1]).neg
    /\ counter_get(c, word_sub(chk, CurBucket[1][1])) >= 2

-----------------------------------------------------------------------------
(* C3 *)

Base0x1000 == [neg |-> FALSE, mag |-> ToDigits(4096, 4)]

ExampleRun ==
    /\ image = ExampleImage
    /\ pointer_size = 4
    /\ endian = "little"
    /\ mask = 12

\* C3: for the image 00 "HELLOWORLD" 00 01 10 00 00 scanned with
\* pointer_size 4, little endian and a mask of 12 bits, the returned table's
\* entry of maximum count is the base 0x1000, and it is what main prints.
C3_ExampleBest ==
    (ExampleRun /\ Scanned) =>
        /\ best_result_of(c).raised = ""
        /\ best_result_of(c).value = Base0x1000
        /\ \A k \in counter_keys(c) \ {Base0x1000} :
              counter_get(c, k) < counter_get(c, Base0x1000)
        /\ pc = "exited" =>
              out \in { << <<"0", "x", "1", "0", "0", "0">> >>,
                        << <<"0", "x", "0", "0", "0", "0", "1", "0", "0", "0", " ", "1">> >> }

C3_Witness ==
    /\ ExampleRun
    /\ pc = "exited"
    /\ out = << <<"0", "x", "1", "0", "0", "0">> >>
    /\ strs = << <<1, HELLOWORLD>> >>
    /\ Len(chunks) = 4

-----------------------------------------------------------------------------
(* C4 *)

Qualifies(sin, cs) ==
    /\ Len(sin) >= 10
    /\ \A k \in 1..Len(sin) : sin[k] \in cs

\* C4 as stated: a run is yielded by iter_cstrings if and only if it has at
\* least 10 bytes, all of them printable characters in the strict sense
\* (0x20..0x7e: no control byte, no extended byte).
C4_YieldedIffStrictlyPrintable ==
    /\ \A i \in 1..Len(strs) : InSeq(strs[i], raw)
    /\ \A i \in 1..Len(raw) :
          InSeq(raw[i], strs) <=> Qualifies(raw[i][2], PrintableStrict)

\* C4 amended: a run is yielded by iter_cstrings if and only if it has at
\* least 10 bytes, all of them in string.printable: 0x20..0x7e or one of the
\* whitespace control characters 0x09..0x0d.
C4_YieldedIffInStringPrintable ==
    /\ \A i \in 1..Len(strs) : InSeq(strs[i], raw)
    /\ \A i \in 1..Len(raw) :
          InSeq(raw[i], strs) <=> Qualifies(raw[i][2], PrintableWithWhitespace)

\* the extraction is over and has yielded a run holding a tab, and has dropped
\* a short printable run
C4_Witness ==
    /\ pc = "chunks"
    /\ \E i \in 1..Len(strs) : \E k \in 1..Len(strs[i][2]) : strs[i][2][k] = 9
    /\ \E i \in 1..Len(raw) :
          /\ ~InSeq(raw[i], strs)
          /\ Len(raw[i][2]) \in 1..9
          /\ \A k \in 1..Len(raw[i][2]) : raw[i][2][k] \in PrintableWithWhitespace

-----------------------------------------------------------------------------
(* C5 *)

\* C5: every key of the table is non-negative after every step; an iteration
\* of the inner loop whose difference is negative leaves the table as it is,
\* and one whose difference is non-negative raises that base's count.
C5_NoNegativeBase ==
    [][/\ \A k \in counter_keys(c') : ~k.neg
       /\ (pc = "vote" /\ CurBase.neg) => c' = c
       /\ (pc = "vote" /\ ~CurBase.neg) =>
              counter_get(c', CurBase) > counter_get(c, CurBase)]_vars

\* the loop over a bucket has ended in which one string gave a negative
\* difference and another a non-negative one, which is counted
C5_Witness ==
    /\ pc = "chunks"
    /\ chk # NoWord
    /\ lo_of(chk, mask) \in DOMAIN M
    /\ \E i, j \in 1..Len(CurBucket) :
          /\ word_sub(chk, CurBucket[i][1]).neg
          /\ ~word_sub(chk, CurBucket[j][1]).neg
          /\ counter_get(c, word_sub(chk, CurBucket[j][1])) > 0

-----------------------------------------------------------------------------
(* C6 *)

\* C6: when the table is empty after the scan, main ends with the error
\* (the uncaught IndexError, hence a non-zero exit status) whatever the mode,
\* and has printed nothing; it ends normally only with a non-empty table.
C6_EmptyTableFails ==
    /\ (pc = "exited" /\ c = <<>>) => (exit = "IndexError" /\ out = <<>>)
    /\ (pc = "scanned" /\ c = <<>>) =>
          (ENABLED MainEmpty /\ \A v \in BOOLEAN : ~ENABLED MainPrint(v))
    /\ exit = "ok" => (c # <<>> /\ out # <<>>)

\* main has failed on a non-empty image without a printable byte
C6_Witness ==
    /\ pc = "exited"
    /\ exit = "IndexError"
    /\ c = <<>>
    /\ out = <<>>
    /\ Len(image) >= 4
    /\ \A k \in 1..Len(image) : image[k] \notin PrintableWithWhitespace

-----------------------------------------------------------------------------
(* C7 *)

\* C7: extracting the strings again from the same stream, wherever its read
\* position is, yields the sequence of (offset, bytes) the first run yielded.
C7_RescanSame ==
    pc = "rescanned" => rescan = strs

\* a second extraction, started at the end of a non-empty file, has yielded
\* two strings or more
C7_Witness ==
    /\ pc = "rescanned"
    /\ Len(rescan) >= 2
    /\ Len(chunks) >= 1

-----------------------------------------------------------------------------
(* C8 *)

Zeros == { k \in 1..Len(image) : image[k] = 0 }

\* C8: iter_cstrings_raw yields the maximal delimiter-free runs, in strictly
\* ascending offset order, each with its true file offset: 0 for the first,
\* one past the previous run's delimiter for the others; every run is
\* yielded, the empty ones and the undelimited last one included.
C8_RawRunsAtTrueOffsets ==
    /\ \A i \in 1..Len(raw) :
          LET p == raw[i][1]
              sin == raw[i][2]
          IN  /\ p + Len(sin) <= Len(image)
              /\ SubSeq(image, p + 1, p + Len(sin)) = sin
              /\ \A k \in 1..Len(sin) : sin[k] # 0
              /\ p = 0 \/ image[p] = 0
              /\ p + Len(sin) = Len(image) \/ image[p + Len(sin) + 1] = 0
              /\ i = 1 => p = 0
              /\ i > 1 => /\ p > raw[i - 1][1]
                          /\ p = raw[i - 1][1] + Len(raw[i - 1][2]) + 1
    /\ pc \notin {"start", "strings"} => Len(raw) = Cardinality(Zeros) + 1

\* the runs of an image have all been yielded, an empty run between two
\* adjacent delimiters and a non-empty undelimited last run among them
C8_Witness ==
    /\ pc = "chunks"
    /\ Len(raw) >= 3
    /\ \E i \in 2..(Len(raw) - 1) : raw[i][2] = <<>>
    /\ raw[Len(raw)][2] # <<>>
    /\ raw[Len(raw)][1] + Len(raw[Len(raw)][2]) = Len(image)

-----------------------------------------------------------------------------
(* C9 *)

\* C9: the pointer pass starts at offset 0 and yields floor(L / pointer_size)
\* values, the i-th being the number held by the i-th window of pointer_size
\* bytes in the configured byte order; a shorter last window yields nothing.
C9_ChunksAreTheWindows ==
    /\ pc \in {"chunks", "vote"} =>
          /\ spos = Len(chunks) * pointer_size
          /\ Len(chunks) <= Len(image) \div pointer_size
    /\ Scanned => Len(chunks) = Len(image) \div pointer_size
    /\ \A i \in 1..Len(chunks) : chunks[i] = WordAt((i - 1) * pointer_size)

\* a pass over an image whose length is no multiple of pointer_size has ended
\* with two values or more
C9_Witness ==
    /\ pc = "scanned"
    /\ Len(chunks) >= 2
    /\ Len(image) % pointer_size # 0
    /\ strs # <<>>

-----------------------------------------------------------------------------
(* C10 *)

\* C10: the low mask bits of every key of the table are zero.
C10_KeysAlignedToMask ==
    \A k \in counter_keys(c) : LowBitsZero(k)

\* a table holding a non-zero base, under a mask of 12 bits
C10_Witness ==
    /\ pc = "scanned"
    /\ mask = 12
    /\ \E k \in counter_keys(c) : ~IsZero(k) /\ LowBitsZero(k)

====
